---------------------------- MODULE Spec2Model ----------------------------
(***************************************************************************)
(* ContextualBudgetOptimizer (backend/app/ai_modules/budget_optimizer.py). *)
(*                                                                         *)
(* Number representation.  The code computes in floats; the model computes *)
(* the same expressions in exact arithmetic:                               *)
(*   - money is counted in units of 5 rupees; the inputs are               *)
(*     multiples of 1000 rupees, so every percentage and every tenth the   *)
(*     code takes of them is a whole number of units; an amount the        *)
(*     rescaling pass has multiplied by its factor is a rational [n, d]    *)
(*     (d > 0) of units;                                                   *)
(*   - action deltas and allocation fractions are whole percents;          *)
(*   - risk multipliers are tenths;                                        *)
(*   - confidences and predicted rewards are thousandths;                  *)
(*   - exploration_rate is in units of 1/RateScale, and the decay          *)
(*     rate * 0.995 is truncated to that unit.                             *)
(***************************************************************************)
EXTENDS Integers, Sequences, FiniteSets, TLC

VARIABLES
    exploration_rate,   \* self.exploration_rate, in 1/RateScale
    reward_models,      \* self.reward_models: category -> model state
    training_data,      \* self.training_data: category -> buffered observations
    store,              \* files under self.model_path
    pc,                 \* "idle" | "returned": the caller's position
    call,               \* the operation in flight / just returned, with its inputs
    result,             \* what that operation returned
    prev,               \* the previous select_budget_action call (SpecRepeat)
    forced,             \* exploration_rate was overwritten from outside the class
    nUpdates,           \* number of update_models_with_feedback calls so far
    fresh,              \* a second instance, constructed later (SpecReload)
    inflight            \* the update_models_with_feedback call of a second
                        \* caller, statement by statement (SpecConcurrent)

vars == <<exploration_rate, reward_models, training_data, store, pc, call,
          result, prev, forced, nUpdates, fresh, inflight>>

-----------------------------------------------------------------------------
(* Bounds of the model *)

\* current_budgets maps hold at most this many keys
MaxBudgetKeys == 2
\* at most this many categories draw the exploration branch in one
\* optimize_complete_budget call
MaxExplored == 1
\* update_models_with_feedback calls in one behaviour
MaxUpdates == 2
\* at most this many categories qualify in one feedback batch
MaxFeedbackCats == 1

-----------------------------------------------------------------------------
(* Units *)

\* rupees to units of money (5 rupees each)
Rupees(x) == x \div 5
\* confidence 1.0
ConfScale == 1000

-----------------------------------------------------------------------------
(* Rationals [n, d] with d > 0 *)

Rat(n, d) == [n |-> n, d |-> d]
RLe(a, b) == a.n * b.d <= b.n * a.d
RLt(a, b) == a.n * b.d < b.n * a.d
REq(a, b) == a.n * b.d = b.n * a.d
RAdd(a, b) ==
    IF a.d = b.d THEN Rat(a.n + b.n, a.d)
    ELSE Rat(a.n * b.d + b.n * a.d, a.d * b.d)
RSub(a, b) == RAdd(a, Rat(-b.n, b.d))
RMul(a, b) == Rat(a.n * b.n, a.d * b.d)
RAbs(a) == Rat(IF a.n < 0 THEN -a.n ELSE a.n, a.d)
Abs(x) == IF x < 0 THEN -x ELSE x
Max(a, b) == IF b > a THEN b ELSE a
Min(a, b) == IF b < a THEN b ELSE a

RECURSIVE RSum(_, _)
\* sum(f[c] for c in S), f a function to rationals
RSum(f, S) ==
    IF S = {} THEN Rat(0, 1)
    ELSE LET c == CHOOSE x \in S : TRUE
         IN  RAdd(f[c], RSum(f, S \ {c}))

RECURSIVE ISum(_, _)
ISum(f, S) ==
    IF S = {} THEN 0
    ELSE LET c == CHOOSE x \in S : TRUE
         IN  f[c] + ISum(f, S \ {c})

-----------------------------------------------------------------------------
(* __init__: categories, action space, initial exploration rate *)

categories ==
    <<"food", "groceries", "transport", "shopping", "entertainment",
      "bills", "healthcare", "investment", "education", "savings">>

CategorySet == {categories[i] : i \in 1..Len(categories)}

\* indexed from 0 as in the code; deltas in percent
action_space ==
    (0 :> -20) @@ (1 :> -10) @@ (2 :> -5) @@ (3 :> 0) @@
    (4 :> 5) @@ (5 :> 10) @@ (6 :> 20)

ActionIndices == DOMAIN action_space

InitialExplorationRate == 10000
\* exploration_rate 1.0
RateScale == 10 * InitialExplorationRate

-----------------------------------------------------------------------------
(* _load_optimization_rules *)

essential_categories == {"groceries", "bills", "healthcare", "transport"}
discretionary_categories == {"entertainment", "shopping", "food"}
investment_categories == {"investment", "savings"}

\* percent of income
minimum_allocation ==
    ("groceries" :> 5) @@ ("bills" :> 10) @@ ("transport" :> 5) @@
    ("healthcare" :> 2) @@ ("savings" :> 10)

maximum_allocation ==
    ("entertainment" :> 15) @@ ("shopping" :> 20) @@ ("food" :> 25)

\* tenths
risk_tolerance_multipliers ==
    ("conservative" :> [investment |-> 8, discretionary |-> 9]) @@
    ("moderate" :> [investment |-> 10, discretionary |-> 10]) @@
    ("aggressive" :> [investment |-> 13, discretionary |-> 11])

RiskTolerances == DOMAIN risk_tolerance_multipliers

-----------------------------------------------------------------------------
(* _initialize_reward_models and the states a model object can be in *)

\* a model object that was never fitted: predict raises NotFittedError
Untrained == 0
\* a model object whose predict raises (fitted on another feature layout)
Broken == -1
\* fitted states are 1..NumFits

ModelKind(category) ==
    IF category \in {"investment", "savings"} THEN "Ridge" ELSE "RandomForest"

InitialRewardModels == [c \in CategorySet |-> Untrained]

-----------------------------------------------------------------------------
(* UserContext.  The fields that reach only the feature vector             *)
(* (current_month_spending, goals_achieved, month_day, is_weekend) are     *)
(* held fixed and left out of the record.                                  *)

UserContext(income, goal, risk, perf) ==
    [income |-> income, savings_goal |-> goal, risk_tolerance |-> risk,
     spending_patterns |-> [c \in {} |-> 0],
     historical_performance |-> perf]

\* dict.get(key, default)
Get(map, key, default) == IF key \in DOMAIN map THEN map[key] ELSE default

-----------------------------------------------------------------------------
(* extract_context_features *)

extract_context_features(ctx) ==
    LET ratio(x) == IF ctx.income > 0 THEN (x * 1000) \div ctx.income ELSE 0
        risk_encodings ==
            ("conservative" :> <<1, 0, 0>>) @@ ("moderate" :> <<0, 1, 0>>) @@
            ("aggressive" :> <<0, 0, 1>>)
    IN  <<ctx.income, ratio(ctx.savings_goal)>>
        \o Get(risk_encodings, ctx.risk_tolerance, <<0, 1, 0>>)
        \o [i \in 1..Len(categories) |->
                ratio(Get(ctx.spending_patterns, categories[i], 0))]
        \o [i \in 1..Len(categories) |->
                Get(ctx.historical_performance, categories[i], 50)]

-----------------------------------------------------------------------------
(* The fitted regressors (sklearn Ridge / RandomForestRegressor with a     *)
(* fixed random_state) are deterministic functions of the fitted state and *)
(* of the feature vector.  PredictReward stands for model.predict: some    *)
(* fixed function of those, in thousandths, ranging below 0.1 and above    *)
(* 1.0 so that both ends of the confidence clamp are met.                  *)

PredictReward(model, context_features, change_pct, current_budget) ==
    LET f == context_features
        h == model * 7 + f[1] \div 200 + f[2] + f[3] + 2 * f[4] + 3 * f[5]
             + f[Len(f)] + change_pct * 3 + current_budget \div 200
    IN  (h % 13) * 100 - 100

\* np.argmax: the first index holding the maximum
ArgMax(rewards) ==
    CHOOSE i \in DOMAIN rewards :
        /\ \A j \in DOMAIN rewards : rewards[j] <= rewards[i]
        /\ \A j \in DOMAIN rewards : j < i => rewards[j] < rewards[i]

\* the clamp without its upper end
ClampConfidenceUncapped(reward) == Max(100, reward)

\* min(0.9, max(0.1, reward))
ClampConfidence(reward) == Min(900, Max(100, reward))

\* a failed predict that is not caught
PredictFailedRaises == [index |-> 3, confidence |-> 300, raised |-> TRUE]

\* what the except clause of _predict_best_action does with a failed predict
PredictFailed == [index |-> 3, confidence |-> 300, raised |-> FALSE]

(* _predict_best_action.  Every model object has a predict attribute, so  *)
(* the hasattr test at the top never returns; an unfitted or broken model *)
(* raises inside the try block.                                            *)
_predict_best_action(models, context_features, category, current_budget) ==
    IF category \notin DOMAIN models
    THEN [index |-> 3, confidence |-> 500, raised |-> FALSE]
    ELSE IF models[category] \in {Untrained, Broken}
    THEN PredictFailed
    ELSE LET action_rewards ==
                 [i \in ActionIndices |->
                     PredictReward(models[category], context_features,
                                   action_space[i], current_budget)]
             best_action_idx == ArgMax(action_rewards)
         IN  [index |-> best_action_idx,
              confidence |-> ClampConfidence(action_rewards[best_action_idx]),
              raised |-> FALSE]

-----------------------------------------------------------------------------
(* _apply_budget_constraints: [raised, amount]; raised is the KeyError of  *)
(* the risk_tolerance_multipliers lookup                                   *)

ApplyMinimum(category, amount, income) ==
    IF category \in DOMAIN minimum_allocation
    THEN Max(amount, (income * minimum_allocation[category]) \div 100)
    ELSE amount

ApplyMaximum(category, amount, income) ==
    IF category \in DOMAIN maximum_allocation
    THEN Min(amount, (income * maximum_allocation[category]) \div 100)
    ELSE amount

\* the two multipliers of a tolerance taken for one another
ApplyRiskSwapped(category, amount, risk_multipliers) ==
    IF category \in {"investment", "savings"}
    THEN (amount * risk_multipliers.discretionary) \div 10
    ELSE IF category \in discretionary_categories
    THEN (amount * risk_multipliers.investment) \div 10
    ELSE amount

ApplyRisk(category, amount, risk_multipliers) ==
    IF category \in {"investment", "savings"}
    THEN (amount * risk_multipliers.investment) \div 10
    ELSE IF category \in discretionary_categories
    THEN (amount * risk_multipliers.discretionary) \div 10
    ELSE amount

_apply_budget_constraints(category, amount, income, risk_tolerance) ==
    IF income <= 0
    THEN [raised |-> FALSE, amount |-> amount]
    ELSE IF risk_tolerance \notin DOMAIN risk_tolerance_multipliers
    THEN [raised |-> TRUE, amount |-> 0]
    ELSE LET a1 == ApplyMinimum(category, amount, income)
             a2 == ApplyMaximum(category, a1, income)
             a3 == ApplyRisk(category, a2,
                             risk_tolerance_multipliers[risk_tolerance])
         IN  [raised |-> FALSE, amount |-> Max(0, a3)]

-----------------------------------------------------------------------------
(* _generate_reasoning.  The text is kept as its parts: the well-balanced  *)
(* sentence, or direction, percentage and the clauses joined by " and ";   *)
(* adjusted counts the notes optimize_complete_budget appended.            *)

WellBalanced ==
    [balanced |-> TRUE, direction |-> "", percentage |-> 0,
     reasons |-> <<>>, adjusted |-> 0]

CategoryReasons(category, change_percentage, ctx) ==
    IF category = "savings"
    THEN IF change_percentage > 0
         THEN <<"to help you reach your savings goal">>
         ELSE <<"to free up funds for other essential expenses">>
    ELSE IF category = "investment"
    THEN IF change_percentage > 0 /\ ctx.risk_tolerance = "aggressive"
         THEN <<"based on your aggressive investment risk tolerance">>
         ELSE IF change_percentage < 0 /\ ctx.risk_tolerance = "conservative"
         THEN <<"aligned with your conservative investment approach">>
         ELSE <<>>
    ELSE IF category \in essential_categories
    THEN IF change_percentage > 0
         THEN <<"to ensure adequate coverage of essential expenses">>
         ELSE <<"as your current allocation seems sufficient">>
    ELSE IF category \in discretionary_categories
    THEN IF change_percentage < 0
         THEN <<"to optimize your spending on discretionary items">>
         ELSE <<"to improve your lifestyle within reasonable limits">>
    ELSE <<>>

HistoryReasons(category, change_percentage, ctx) ==
    LET historical_performance ==
            Get(ctx.historical_performance, category, 50)
    IN  IF historical_performance < 70 /\ change_percentage < 0
        THEN <<"since you've been exceeding this budget consistently">>
        ELSE IF historical_performance > 90 /\ change_percentage > 0
        THEN <<"as you've been staying well within this budget">>
        ELSE <<>>

_generate_reasoning(category, change_percentage, ctx) ==
    IF Abs(change_percentage) < 1
    THEN WellBalanced
    ELSE [balanced |-> FALSE,
          direction |-> IF change_percentage > 0 THEN "increase" ELSE "decrease",
          percentage |-> Abs(change_percentage),
          reasons |-> CategoryReasons(category, change_percentage, ctx)
                      \o HistoryReasons(category, change_percentage, ctx),
          adjusted |-> 0]

-----------------------------------------------------------------------------
(* BudgetAction *)

BudgetAction(category, amount, current, change, reasoning, confidence) ==
    [category |-> category, recommended_amount |-> amount,
     current_amount |-> current, change_percentage |-> change,
     reasoning |-> reasoning, confidence |-> confidence]

NoAction == BudgetAction("", Rat(0, 1), 0, Rat(0, 1), WellBalanced, 0)

\* a change counted as 100% when there was no budget before
ChangePercentageFromNothing(new_amount, current) ==
    IF current > 0
    THEN Rat(new_amount.n - current * new_amount.d, current * new_amount.d)
    ELSE IF new_amount.n > 0 THEN Rat(1, 1) ELSE Rat(0, 1)

\* (new_amount - current) / current if current > 0 else 0
ChangePercentage(new_amount, current) ==
    IF current > 0
    THEN Rat(new_amount.n - current * new_amount.d, current * new_amount.d)
    ELSE Rat(0, 1)

-----------------------------------------------------------------------------
(* select_budget_action.  draw is what the two np.random calls gave: Exploit *)
(* when random() >= exploration_rate, else the index np.random.choice drew.  *)

Exploit == -1

\* the draw compared with <= instead of <
CanExploreInclusive(rate) == rate >= 0

\* np.random.random() lies in [0, 1): it can fall below the rate iff rate > 0
CanExplore(rate) == rate > 0
CanExploit(rate) == rate < RateScale

Draws(rate) ==
    (IF CanExplore(rate) THEN ActionIndices ELSE {})
    \cup (IF CanExploit(rate) THEN {Exploit} ELSE {})

select_budget_action(models, user_context, category, current_budget, draw) ==
    LET context_features == extract_context_features(user_context)
        picked ==
            IF draw # Exploit
            THEN [index |-> draw, confidence |-> 300, raised |-> FALSE]
            ELSE _predict_best_action(models, context_features, category,
                                      current_budget)
        change_percentage == action_space[picked.index]
        new_amount == (current_budget * (100 + change_percentage)) \div 100
        constrained ==
            _apply_budget_constraints(category, new_amount,
                user_context.income, user_context.risk_tolerance)
        reasoning ==
            _generate_reasoning(category, change_percentage, user_context)
    IN  IF picked.raised
        THEN [raised |-> TRUE, error |-> "predict", action_index |-> picked.index,
              action |-> NoAction]
        ELSE IF constrained.raised
        THEN [raised |-> TRUE, error |-> "KeyError", action_index |-> picked.index,
              action |-> NoAction]
        ELSE [raised |-> FALSE, error |-> "", action_index |-> picked.index,
              action |->
                  BudgetAction(category, Rat(constrained.amount, 1),
                      current_budget,
                      ChangePercentage(Rat(constrained.amount, 1), current_budget),
                      reasoning, picked.confidence)]

-----------------------------------------------------------------------------
(* optimize_complete_budget *)

\* the reduction factor without its floor
ReductionFactorUnfloored(excess, discretionary_total) ==
    Rat(discretionary_total - excess, discretionary_total)

\* max(0.7, 1 - excess / discretionary_total), for discretionary_total > 0
ReductionFactor(excess, discretionary_total) ==
    IF 10 * (discretionary_total - excess) > 7 * discretionary_total
    THEN Rat(discretionary_total - excess, discretionary_total)
    ELSE Rat(7, 10)

\* the BudgetAction the second pass builds from action
RescaledAction(action, reduction_factor) ==
    LET new_amount == RMul(action.recommended_amount, reduction_factor)
    IN  BudgetAction(action.category, new_amount, action.current_amount,
            ChangePercentage(new_amount, action.current_amount),
            [action.reasoning EXCEPT !.adjusted = @ + 1],
            (action.confidence * 9) \div 10)

\* a pass that rewrites every category
RescaledEverywhere == CategorySet

\* the categories the second pass rewrites
RescaledCategories == discretionary_categories

\* the second pass; recommendations come from the first pass, so every
\* recommended_amount has d = 1
SecondPass(recommendations, income) ==
    LET amount == [c \in DOMAIN recommendations |->
                       recommendations[c].recommended_amount.n]
        total_recommended == ISum(amount, DOMAIN recommendations)
        limit == (income * 95) \div 100
        excess == total_recommended - limit
        discretionary_total ==
            ISum(amount, discretionary_categories \cap DOMAIN recommendations)
        fires == total_recommended > limit /\ discretionary_total > 0
        reduction_factor ==
            IF fires THEN ReductionFactor(excess, discretionary_total)
            ELSE Rat(1, 1)
    IN  [rescaled |-> fires,
         reduction_factor |-> reduction_factor,
         recommendations |->
             [c \in DOMAIN recommendations |->
                 IF fires /\ c \in RescaledCategories
                 THEN RescaledAction(recommendations[c], reduction_factor)
                 ELSE recommendations[c]]]

\* draws: category -> what the random calls gave in its select_budget_action
optimize_complete_budget(models, user_context, current_budgets, draws) ==
    LET first ==
            [c \in CategorySet |->
                select_budget_action(models, user_context, c,
                    Get(current_budgets, c, 0), draws[c])]
        first_pass == [c \in CategorySet |-> first[c].action]
        second == SecondPass(first_pass, user_context.income)
    IN  IF \E c \in CategorySet : first[c].raised
        THEN [raised |-> TRUE, first_pass |-> first_pass, rescaled |-> FALSE,
              reduction_factor |-> Rat(1, 1), recommendations |-> first_pass]
        ELSE [raised |-> FALSE, first_pass |-> first_pass,
              rescaled |-> second.rescaled,
              reduction_factor |-> second.reduction_factor,
              recommendations |-> second.recommendations]

-----------------------------------------------------------------------------
(* calculate_reward.  Rewards are rationals of thousandths; the fields of  *)
(* an outcome record are percents.                                         *)

RECURSIVE GCD(_, _)
GCD(a, b) == IF b = 0 THEN Abs(a) ELSE GCD(b, a % b)

\* the same rational in lowest terms
RNorm(r) == LET g == GCD(r.n, r.d) IN Rat(r.n \div g, r.d \div g)

\* income_percentage < min_required, with
\* income_percentage = recommended_amount / income if income > 0 else 0
BelowMinimum(category, amount, income) ==
    /\ category \in DOMAIN minimum_allocation
    /\ IF income > 0
       THEN amount.n * 100 < minimum_allocation[category] * income * amount.d
       ELSE 0 < minimum_allocation[category]

\* income_percentage > max_allowed
AboveMaximum(category, amount, income) ==
    /\ category \in DOMAIN maximum_allocation
    /\ IF income > 0
       THEN amount.n * 100 > maximum_allocation[category] * income * amount.d
       ELSE 0 > maximum_allocation[category]

\* no penalty for an allocation outside its bounds
FeasibilityNoPenalty(category, amount, income) == Rat(0, 1)

\* 1. -0.3 below the minimum allocation, -0.2 above the maximum allocation
FeasibilityReward(category, amount, income) ==
    Rat((IF BelowMinimum(category, amount, income) THEN -300 ELSE 0)
        + (IF AboveMaximum(category, amount, income) THEN -200 ELSE 0), 1)

\* 2. 0.2 * (1 - min(deviation, 1.0)) when the category has a history
AlignmentReward(category, amount, spending_patterns) ==
    LET historical_avg == Get(spending_patterns, category, 0)
        h == historical_avg * amount.d
    IN  IF historical_avg > 0
        THEN RNorm(Rat(200 * (h - Min(Abs(amount.n - h), h)), h))
        ELSE Rat(0, 1)

\* 3. 0.2 when the change goes the way the investment multiplier points
RiskReward(category, change_percentage, risk_multipliers) ==
    IF /\ category \in {"investment", "savings"}
       /\ \/ risk_multipliers.investment > 10 /\ change_percentage.n > 0
          \/ risk_multipliers.investment < 10 /\ change_percentage.n < 0
    THEN Rat(200, 1)
    ELSE Rat(0, 1)

\* 4. 0.3 * min(recommended_amount * 12 / savings_goal, 1.0) for savings
GoalReward(category, amount, savings_goal) ==
    IF category = "savings" /\ savings_goal > 0
    THEN RNorm(Rat(300 * Min(12 * amount.n, savings_goal * amount.d),
                   savings_goal * amount.d))
    ELSE Rat(0, 1)

\* actual_outcome: Optional[Dict] = None; a supplied record is a dict
NoOutcome == [supplied |-> FALSE, fields |-> [k \in {} |-> 0]]
OutcomeRecord(fields) == [supplied |-> TRUE, fields |-> fields]

\* if actual_outcome: None and the empty dict are both false
Truthy(actual_outcome) ==
    actual_outcome.supplied /\ DOMAIN actual_outcome.fields # {}

\* 5. 0.3 * budget_adherence + 0.2 * user_satisfaction + 0.2 * goal_progress
OutcomeReward(actual_outcome) ==
    IF ~Truthy(actual_outcome)
    THEN Rat(0, 1)
    ELSE Rat(3 * Get(actual_outcome.fields, "budget_adherence", 50)
             + 2 * Get(actual_outcome.fields, "user_satisfaction", 50)
             + 2 * Get(actual_outcome.fields, "goal_progress", 50), 1)

\* 6. 0.1 * action.confidence
ConfidenceReward(confidence) == RNorm(Rat(confidence, 10))

\* the sum returned as it is
RewardUnclamped(reward) == reward

\* max(0.0, min(1.0, reward))
ClampReward(reward) ==
    IF RLt(reward, Rat(0, 1)) THEN Rat(0, 1)
    ELSE IF RLt(Rat(1000, 1), reward) THEN Rat(1000, 1)
    ELSE reward

calculate_reward(action, user_context, actual_outcome) ==
    IF user_context.risk_tolerance \notin DOMAIN risk_tolerance_multipliers
    THEN [raised |-> TRUE, reward |-> Rat(0, 1)]
    ELSE LET category == action.category
             recommended_amount == action.recommended_amount
             r1 == FeasibilityReward(category, recommended_amount,
                                     user_context.income)
             r2 == AlignmentReward(category, recommended_amount,
                                   user_context.spending_patterns)
             r3 == RiskReward(category, action.change_percentage,
                     risk_tolerance_multipliers[user_context.risk_tolerance])
             r4 == GoalReward(category, recommended_amount,
                              user_context.savings_goal)
             r5 == OutcomeReward(actual_outcome)
             r6 == ConfidenceReward(action.confidence)
             reward == RNorm(RAdd(RNorm(RAdd(RAdd(r1, r3), RAdd(r5, r6))),
                                  RNorm(RAdd(r2, r4))))
         IN  [raised |-> FALSE, reward |-> ClampReward(reward)]

-----------------------------------------------------------------------------
(* update_models_with_feedback *)

ExplorationFloor == 5000

\* a growth factor in place of the decay factor
DecayedRateGrowing(rate) == Max(ExplorationFloor, (rate * 1005) \div 1000)

\* the decay without its floor
DecayedRateUnfloored(rate) == (rate * 995) \div 1000

\* max(0.05, self.exploration_rate * 0.995)
DecayedRate(rate) == Max(ExplorationFloor, (rate * 995) \div 1000)

RECURSIVE DecayedTimes(_, _)
\* rate after n updates; the floor, once reached, is kept
DecayedTimes(rate, n) ==
    IF n = 0 THEN rate
    ELSE IF n = 1 THEN DecayedRate(rate)
    ELSE LET half == DecayedTimes(rate, n \div 2)
         IN  IF half = ExplorationFloor THEN half
             ELSE DecayedTimes(half, n - n \div 2)

\* the rate of an instance constructed and then updated n times
RateAfter(n) == DecayedTimes(InitialExplorationRate, n)

\* len(training_data[category]['X']) at which the model is refitted
RetrainSize == 10
\* the fitted states a refit can end in (they depend on the buffered data)
NumFits == 2

\* every category with an action, with an outcome or without
QualifyingActions(models, actions_taken, outcomes) ==
    {c \in actions_taken : c \in DOMAIN models}

\* the categories of a batch that get an observation
Qualifying(models, actions_taken, outcomes) ==
    {c \in actions_taken : c \in outcomes /\ c \in DOMAIN models}

\* neither Ridge nor RandomForestRegressor has partial_fit: the observation
\* is buffered, and the buffer is emptied by the refit
BufferedAfter(buffers, category) ==
    IF Get(buffers, category, 0) + 1 >= RetrainSize
    THEN 0
    ELSE Get(buffers, category, 0) + 1

Refits(buffers, category) == Get(buffers, category, 0) + 1 >= RetrainSize

\* hasattr(model, 'partial_fit'): the kinds of model that have the method.
\* Neither sklearn.linear_model.Ridge nor
\* sklearn.ensemble.RandomForestRegressor defines it.
PartialFitKinds == {}

\* self.training_data after the observations of the categories in Q; for
\* the categories in failed, model.fit raises (non-finite features in the
\* buffer), the except clause swallows the error and the buffer is not
\* cleared
BuffersAfterFits(buffers, Q, failed) ==
    [c \in DOMAIN buffers \cup {q \in Q : ModelKind(q) \notin PartialFitKinds} |->
        IF c \notin Q \/ ModelKind(c) \in PartialFitKinds THEN buffers[c]
        ELSE IF c \in failed THEN Get(buffers, c, 0) + 1
        ELSE BufferedAfter(buffers, c)]

\* self.reward_models after them; fitted[c] is the state model.partial_fit
\* or model.fit leaves
ModelsAfterFits(models, buffers, Q, fitted, failed) ==
    [c \in DOMAIN models |->
        IF /\ c \in Q
           /\ c \notin failed
           /\ ModelKind(c) \in PartialFitKinds \/ Refits(buffers, c)
        THEN fitted[c]
        ELSE models[c]]

\* the same when every fit succeeds
BuffersAfter(buffers, Q) == BuffersAfterFits(buffers, Q, {})

ModelsAfter(models, buffers, Q, fitted) == ModelsAfterFits(models, buffers, Q, fitted, {})

\* abs(self.action_space[i] - action.change_percentage) is computed in
\* binary64.  For a change_percentage in thousandths and each index i (the
\* tuples are indexed from 1): what the computed double differs by from the
\* decimal distance, in units of 2^-56 / 10.
FloatRounding ==
    (-500 :> <<-8, 16, 8, 0, 32, -16, -32>>) @@
    (-200 :> <<0, 4, 16, 8, 0, 32, 16>>) @@
    (-150 :> <<12, -8, -6, -4, 8, 0, -16>>) @@
    (-100 :> <<4, 0, 2, 4, 16, 8, 32>>) @@
    (-75 :> <<0, 6, -4, -2, 0, -8, 16>>) @@
    (-50 :> <<16, 2, 0, 2, 4, 16, 0>>) @@
    (-25 :> <<12, 8, 1, 1, 8, 0, 4>>) @@
    (0 :> <<8, 4, 2, 0, 2, 4, 8>>) @@
    (25 :> <<4, 0, 8, 1, 1, 8, 12>>) @@
    (50 :> <<0, 16, 4, 2, 0, 2, 16>>) @@
    (75 :> <<16, -8, 0, -2, -4, 6, 0>>) @@
    (100 :> <<32, 8, 16, 4, 2, 0, 4>>) @@
    (150 :> <<-16, 0, 8, -4, -6, -8, 12>>) @@
    (200 :> <<16, 32, 0, 8, 16, 4, 0>>) @@
    (300 :> <<0, 16, -16, -8, 0, -12, -16>>)

\* the computed distance: thousandths, then the rounding
FloatDistance(i, change_percentage) ==
    <<Abs(action_space[i] * 10 - change_percentage), FloatRounding[change_percentage][i + 1]>>

\* the distance in the reals
ExactDistance(i, change_percentage) ==
    <<Abs(action_space[i] * 10 - change_percentage), 0>>

FloatLess(a, b) == a[1] < b[1] \/ (a[1] = b[1] /\ a[2] < b[2])

\* the first index at the least distance in the reals
NearestBucketExact(change_percentage) ==
    CHOOSE i \in ActionIndices :
        /\ \A j \in ActionIndices :
               ~FloatLess(ExactDistance(j, change_percentage), ExactDistance(i, change_percentage))
        /\ \A j \in ActionIndices :
               j < i => FloatLess(ExactDistance(i, change_percentage), ExactDistance(j, change_percentage))

\* min(range(len(self.action_space)), key=...): the first index whose
\* computed distance is the least
NearestBucket(change_percentage) ==
    CHOOSE i \in ActionIndices :
        /\ \A j \in ActionIndices :
               ~FloatLess(FloatDistance(j, change_percentage), FloatDistance(i, change_percentage))
        /\ \A j \in ActionIndices :
               j < i => FloatLess(FloatDistance(i, change_percentage), FloatDistance(j, change_percentage))

-----------------------------------------------------------------------------
(* save_models / load_models: the files under model_path *)

EmptyMap == [c \in {} |-> 0]

\* models: the <category>_reward_model.pkl files that exist, with the model
\* state each holds; unreadable: the existing files that cannot be read back
EmptyStore ==
    [models |-> EmptyMap, has_scaler |-> FALSE, has_metadata |-> FALSE,
     exploration_rate |-> 0, unreadable |-> {}]

\* the files in the order save_models writes and load_models reads them
FileOrder == categories \o <<"feature_scaler", "metadata">>

FileIndex(file) == CHOOSE i \in 1..Len(FileOrder) : FileOrder[i] = file

FileExists(files, file) ==
    IF file = "metadata" THEN files.has_metadata
    ELSE IF file = "feature_scaler" THEN files.has_scaler
    ELSE file \in DOMAIN files.models

\* every model object has a fit attribute, so every category is dumped
SavedStore(models, rate) ==
    [models |-> models, has_scaler |-> TRUE, has_metadata |-> TRUE,
     exploration_rate |-> rate, unreadable |-> {}]

\* the files after a save_models call whose write of file point failed: the
\* files before it are rewritten, point is left truncated, the files after
\* it are as they were
PartlySavedStore(files, models, rate, point) ==
    LET k == FileIndex(point)
        reached(file) == FileIndex(file) <= k
    IN  [models |->
            [c \in DOMAIN files.models \cup {x \in DOMAIN models : reached(x)}
                |-> IF c \in DOMAIN models /\ reached(c)
                    THEN models[c] ELSE files.models[c]],
         has_scaler |-> files.has_scaler \/ reached("feature_scaler"),
         has_metadata |-> files.has_metadata \/ reached("metadata"),
         exploration_rate |->
            IF reached("metadata") THEN rate ELSE files.exploration_rate,
         unreadable |->
            {f \in files.unreadable : ~reached(f)} \cup {point}]

\* position in FileOrder of the first file load_models fails to read, 0 when
\* it reads them all
FirstUnreadable(files) ==
    LET bad == {i \in 1..Len(FileOrder) :
                   /\ FileExists(files, FileOrder[i])
                   /\ FileOrder[i] \in files.unreadable}
    IN  IF bad = {} THEN 0
        ELSE CHOOSE i \in bad : \A j \in bad : i <= j

\* load_models got as far as reading file
WasRead(files, file) ==
    /\ FileExists(files, file)
    /\ FirstUnreadable(files) = 0 \/ FileIndex(file) < FirstUnreadable(files)

\* a load that replaces nothing
LoadedNothing(models, files) == models

\* self.reward_models[category] = joblib.load(...), category by category,
\* until a read raises
LoadedModels(models, files) ==
    [c \in DOMAIN models |->
        IF WasRead(files, c) THEN files.models[c] ELSE models[c]]

\* metadata.get("exploration_rate", 0.1) when metadata.json exists
LoadedRate(rate, files) ==
    IF WasRead(files, "metadata") THEN files.exploration_rate ELSE rate

\* what load_models returns
LoadedValue(files) == IF FirstUnreadable(files) = 0 THEN "True" ELSE "False"

-----------------------------------------------------------------------------
(* get_budget_insights and its helpers.  Ratios are rationals. *)

\* sum(budgets.get(cat, 0) for cat in group)
GroupTotal(budgets, group) == ISum([c \in group |-> Get(budgets, c, 0)], group)

\* x / income if income > 0 else 0
IncomeRatio(x, income) == IF income > 0 THEN Rat(x, income) ELSE Rat(0, 1)

\* float('inf')
Infinity == Rat(1, 0)

_get_risk_recommendations(risk_level) ==
    CASE risk_level = "low" -> <<"balanced", "increase investment">>
      [] risk_level = "medium" -> <<"review discretionary", "emergency fund">>
      [] risk_level = "high" ->
             <<"prioritize essential", "reduce discretionary", "emergency fund">>
      [] OTHER -> <<>>

_assess_budget_risk(user_context, budgets) ==
    LET income == user_context.income
        essential_ratio ==
            IncomeRatio(GroupTotal(budgets, essential_categories), income)
        discretionary_ratio ==
            IncomeRatio(GroupTotal(budgets, discretionary_categories), income)
        investment_ratio ==
            IncomeRatio(GroupTotal(budgets, investment_categories), income)
        risk_level ==
            IF RLt(essential_ratio, Rat(3, 10)) THEN "high"
            ELSE IF RLt(Rat(4, 10), discretionary_ratio) THEN "high"
            ELSE IF RLt(Rat(7, 10), essential_ratio) THEN "medium"
            ELSE "low"
    IN  [level |-> risk_level, essential_ratio |-> essential_ratio,
         discretionary_ratio |-> discretionary_ratio,
         investment_ratio |-> investment_ratio,
         recommendations |-> _get_risk_recommendations(risk_level)]

\* the opportunities, each by the category it is about
_identify_optimization_opportunities(user_context, budgets) ==
    LET income == user_context.income
    IN  {c \in {"savings"} :
            RLt(IncomeRatio(Get(budgets, c, 0), income), Rat(1, 10))}
        \cup {c \in {"entertainment", "shopping"} :
                 RLt(Rat(Get(maximum_allocation, c, 20), 100),
                     IncomeRatio(Get(budgets, c, 0), income))}

_assess_goal_alignment(user_context, budgets) ==
    LET saved == Get(budgets, "savings", 0) + Get(budgets, "investment", 0)
        annual_savings == saved * 12
        goal_progress ==
            IF user_context.savings_goal > 0
            THEN Rat(annual_savings, user_context.savings_goal)
            ELSE Rat(1, 1)
        capped == IF RLt(Rat(1, 1), goal_progress) THEN Rat(1, 1)
                  ELSE goal_progress
    IN  [savings_goal_progress |-> capped,
         annual_savings_projection |-> annual_savings,
         months_to_goal |->
             IF saved > 0 THEN Rat(user_context.savings_goal, saved)
             ELSE Infinity,
         alignment_score |-> capped]

get_budget_insights(user_context, current_budgets) ==
    LET total_budget == ISum(current_budgets, DOMAIN current_budgets)
    IN  [total_allocated |-> total_budget,
         income_utilization |-> IncomeRatio(total_budget, user_context.income),
         remaining_income |-> Max(0, user_context.income - total_budget),
         allocation_breakdown |->
             [c \in DOMAIN current_budgets |->
                 IF total_budget > 0
                 THEN Rat(current_budgets[c] * 100, total_budget)
                 ELSE Rat(0, 1)],
         risk_assessment |-> _assess_budget_risk(user_context, current_budgets),
         optimization_opportunities |->
             _identify_optimization_opportunities(user_context, current_budgets),
         goal_alignment |-> _assess_goal_alignment(user_context, current_budgets)]

\* no get_budget_insights call was made
NoInsights == get_budget_insights([income |-> 0, savings_goal |-> 0], [c \in {} |-> 0])

-----------------------------------------------------------------------------
(* The state machine *)

NoContext == UserContext(0, 0, "moderate", EmptyMap)

NoCall ==
    [op |-> "none", user_context |-> NoContext, category |-> "",
     budgets |-> EmptyMap, draws |-> EmptyMap, action |-> NoAction,
     outcome |-> NoOutcome, actions_taken |-> EmptyMap, outcomes |-> {}]

NoResult ==
    [raised |-> FALSE, error |-> "", recommendations |-> EmptyMap,
     first_pass |-> EmptyMap, rescaled |-> FALSE,
     reduction_factor |-> Rat(1, 1), action_index |-> EmptyMap,
     exploration_rate |-> 0, reward_models |-> EmptyMap,
     reward |-> Rat(0, 1), value |-> "None", insights |-> NoInsights,
     credited |-> EmptyMap]

NoPrev == [call |-> NoCall, result |-> NoResult]

\* the second instance before it is constructed
NoFresh ==
    [exists |-> FALSE, exploration_rate |-> InitialExplorationRate,
     reward_models |-> InitialRewardModels, training_data |-> EmptyMap,
     updates |-> 0, raised |-> FALSE, action |-> NoAction]

\* no update_models_with_feedback call of the second caller is in flight
NoUpdate == [step |-> "none", category |-> ""]

optimizer == <<exploration_rate, reward_models, training_data>>

\* one select_budget_action call
Select(contexts, cats, amounts) ==
    /\ pc = "idle"
    /\ \E ctx \in contexts, category \in cats, current_budget \in amounts,
          draw \in Draws(exploration_rate) :
          \E r \in {select_budget_action(reward_models, ctx, category,
                                        current_budget, draw)} :
              /\ call' = [NoCall EXCEPT
                     !.op = "select", !.user_context = ctx,
                     !.category = category,
                     !.budgets = (category :> current_budget),
                     !.draws = (category :> draw)]
              /\ result' = [NoResult EXCEPT
                     !.raised = r.raised, !.error = r.error,
                     !.recommendations = (category :> r.action),
                     !.first_pass = (category :> r.action),
                     !.action_index = (category :> r.action_index),
                     !.exploration_rate = exploration_rate,
                     !.reward_models = reward_models]
    /\ pc' = "returned"
    /\ UNCHANGED <<optimizer, store, prev, forced, nUpdates, fresh, inflight>>

\* current_budgets maps: at most MaxBudgetKeys keys among keyCats
BudgetMaps(keyCats, amounts) ==
    UNION {[K -> amounts] :
              K \in {S \in SUBSET keyCats : Cardinality(S) <= MaxBudgetKeys}}

\* the random draws of one optimize_complete_budget call: at most MaxExplored
\* categories, all among exploreCats, take the exploration branch
DrawMaps(rate, exploreCats) ==
    {[c \in CategorySet |-> IF c \in DOMAIN e THEN e[c] ELSE Exploit] :
        e \in UNION {[E -> ActionIndices] :
                        E \in {S \in SUBSET exploreCats :
                                  /\ Cardinality(S) <= MaxExplored
                                  /\ S # {} => CanExplore(rate)}}}

\* one optimize_complete_budget call
Optimize(contexts, keyCats, amounts, exploreCats) ==
    /\ pc = "idle"
    /\ CanExploit(exploration_rate)
    /\ \E ctx \in contexts, current_budgets \in BudgetMaps(keyCats, amounts),
          draws \in DrawMaps(exploration_rate, exploreCats) :
          \E r \in {optimize_complete_budget(reward_models, ctx,
                                            current_budgets, draws)} :
              /\ call' = [NoCall EXCEPT
                     !.op = "optimize", !.user_context = ctx,
                     !.budgets = current_budgets, !.draws = draws]
              /\ result' = [NoResult EXCEPT
                     !.raised = r.raised,
                     !.error = IF r.raised THEN "KeyError" ELSE "",
                     !.recommendations = r.recommendations,
                     !.first_pass = r.first_pass,
                     !.rescaled = r.rescaled,
                     !.reduction_factor = r.reduction_factor,
                     !.exploration_rate = exploration_rate,
                     !.reward_models = reward_models]
    /\ pc' = "returned"
    /\ UNCHANGED <<optimizer, store, prev, forced, nUpdates, fresh, inflight>>

\* one update_models_with_feedback call.  A batch gives actions_taken as
\* the change_percentage (thousandths) of each action taken, the field the
\* bucket is computed from, and outcomes by its key set.  With an unknown
\* risk tolerance calculate_reward raises for the first qualifying category,
\* before anything is written.  failing: the categories whose fit can raise.
Update(contexts, batches, failing, limit) ==
    /\ pc = "idle"
    /\ nUpdates < limit
    /\ \E ctx \in contexts, batch \in batches :
          LET Q == Qualifying(reward_models, DOMAIN batch.actions_taken,
                              batch.outcomes)
              raised == /\ Q # {}
                        /\ ctx.risk_tolerance
                               \notin DOMAIN risk_tolerance_multipliers
          IN  /\ \E fitted \in [Q -> 1..NumFits],
                    failed \in SUBSET (Q \cap failing) :
                     /\ training_data' =
                            IF raised THEN training_data
                            ELSE BuffersAfterFits(training_data, Q, failed)
                     /\ reward_models' =
                            IF raised THEN reward_models
                            ELSE ModelsAfterFits(reward_models, training_data,
                                                 Q, fitted, failed)
              /\ exploration_rate' =
                     IF raised THEN exploration_rate
                     ELSE DecayedRate(exploration_rate)
              /\ call' = [NoCall EXCEPT
                     !.op = "update", !.user_context = ctx,
                     !.actions_taken = batch.actions_taken,
                     !.outcomes = batch.outcomes]
              /\ result' = [NoResult EXCEPT
                     !.raised = raised,
                     !.error = IF raised THEN "KeyError" ELSE "",
                     !.credited =
                         IF raised THEN EmptyMap
                         ELSE [c \in Q |->
                                  NearestBucket(batch.actions_taken[c])]]
    /\ nUpdates' = nUpdates + 1
    /\ pc' = "returned"
    /\ UNCHANGED <<store, prev, forced, fresh, inflight>>

\* the batches of at most MaxFeedbackCats actions and outcomes over
\* feedbackCats, every action with no change
KeyBatches(feedbackCats) ==
    {[actions_taken |-> [c \in A |-> 0], outcomes |-> O] :
        A \in {S \in SUBSET feedbackCats : Cardinality(S) <= MaxFeedbackCats},
        O \in {S \in SUBSET feedbackCats : Cardinality(S) <= MaxFeedbackCats}}

\* update_models_with_feedback calls with a known risk tolerance whose fits
\* succeed
UpdateFeedback(feedbackCats) ==
    Update({NoContext}, KeyBatches(feedbackCats), {}, MaxUpdates)

\* one save_models call; failure is the step at which the file system
\* refuses ("none": it does not): os.makedirs, or the write of one file
Save(failures) ==
    /\ pc = "idle"
    /\ \E failure \in failures :
          /\ store' =
                IF failure = "none"
                THEN SavedStore(reward_models, exploration_rate)
                ELSE IF failure = "makedirs" THEN store
                ELSE PartlySavedStore(store, reward_models, exploration_rate,
                                      failure)
          /\ result' = [NoResult EXCEPT
                 !.raised = failure # "none",
                 !.error = IF failure # "none" THEN "OSError" ELSE ""]
    /\ call' = [NoCall EXCEPT !.op = "save"]
    /\ pc' = "returned"
    /\ UNCHANGED <<optimizer, prev, forced, nUpdates, fresh, inflight>>

\* one save_models call on a file system that works
SaveModels == Save({"none"})

\* one load_models call
LoadModels ==
    /\ pc = "idle"
    /\ reward_models' = LoadedModels(reward_models, store)
    /\ exploration_rate' = LoadedRate(exploration_rate, store)
    /\ call' = [NoCall EXCEPT !.op = "load"]
    /\ result' = [NoResult EXCEPT !.value = LoadedValue(store)]
    /\ pc' = "returned"
    /\ UNCHANGED <<training_data, store, prev, forced, nUpdates, fresh, inflight>>

\* a caller (a test) overwrites the attribute: exploration forced off
ForceExploitation ==
    /\ pc = "idle"
    /\ exploration_rate # 0
    /\ exploration_rate' = 0
    /\ forced' = TRUE
    /\ call' = [NoCall EXCEPT !.op = "force"]
    /\ result' = NoResult
    /\ pc' = "returned"
    /\ UNCHANGED <<reward_models, training_data, store, prev, nUpdates, fresh, inflight>>

\* the caller takes the result
Return ==
    /\ pc = "returned"
    /\ pc' = "idle"
    /\ call' = NoCall
    /\ result' = NoResult
    /\ UNCHANGED <<optimizer, store, prev, forced, nUpdates, fresh, inflight>>

\* the caller takes the result and keeps the last select_budget_action apart
ReturnKeep ==
    /\ pc = "returned"
    /\ pc' = "idle"
    /\ prev' = IF call.op = "select"
               THEN [call |-> call, result |-> result] ELSE prev
    /\ call' = NoCall
    /\ result' = NoResult
    /\ UNCHANGED <<optimizer, store, forced, nUpdates, fresh, inflight>>

-----------------------------------------------------------------------------
(* Inputs *)

Incomes == {Rupees(-5000), 0, Rupees(50000)}
Amounts == {Rupees(-1000), Rupees(2000), Rupees(30000)}
SavingsGoal == Rupees(100000)

PerformanceMaps == {EmptyMap, [c \in CategorySet |-> 95]}

\* select_budget_action: every income, every tolerance (one of them not in
\* the multiplier table), every category (one of them not in the bank)
SelectContexts ==
    {UserContext(i, SavingsGoal, r, p) :
        i \in Incomes, r \in RiskTolerances \cup {"reckless"},
        p \in PerformanceMaps}
SelectCategories == CategorySet \cup {"rent"}
SelectAmounts == Amounts \cup {0}

OptimizeContexts ==
    {UserContext(i, SavingsGoal, "moderate", EmptyMap) : i \in Incomes}
    \cup {UserContext(Rupees(50000), SavingsGoal, r, EmptyMap) :
             r \in RiskTolerances}

\* optimize_complete_budget: the keys current_budgets may hold (a category
\* without a key has budget 0) and the categories that may explore
OptimizeKeys == {"food", "shopping", "education", "savings"}
OptimizeExplored == {"food", "education"}

\* what an earlier process left under model_path: nothing, or the files of
\* an instance saved after PersistedUpdates feedback updates
PersistedUpdates == 136

PersistedModels ==
    [c \in CategorySet |->
        IF c = "healthcare" THEN Broken
        ELSE IF c = "transport" THEN Untrained
        ELSE IF ModelKind(c) = "Ridge" THEN 2 ELSE 1]

PersistedStore == SavedStore(PersistedModels, RateAfter(PersistedUpdates))

InitWith(stores) ==
    /\ exploration_rate = InitialExplorationRate
    /\ reward_models = InitialRewardModels
    /\ training_data = EmptyMap
    /\ store \in stores
    /\ pc = "idle"
    /\ call = NoCall
    /\ result = NoResult
    /\ prev = NoPrev
    /\ forced = FALSE
    /\ nUpdates = 0
    /\ fresh = NoFresh
    /\ inflight = NoUpdate

-----------------------------------------------------------------------------
(* Spec: the life of one instance, with one decision input of each kind *)

LifeContexts == {UserContext(Rupees(50000), SavingsGoal, "moderate", EmptyMap)}

Init == InitWith({EmptyStore, PersistedStore})

Next ==
    \/ Select(LifeContexts, {"savings"}, {Rupees(2000)})
    \/ Optimize(LifeContexts, {"food"}, {Rupees(30000)}, {"food"})
    \/ UpdateFeedback({"food", "savings", "rent"})
    \/ SaveModels
    \/ LoadModels
    \/ ForceExploitation
    \/ Return

Spec == Init /\ [][Next]_vars

-----------------------------------------------------------------------------
(* SpecDecide: the decisions of an instance over all the inputs *)

InitDecide == InitWith({PersistedStore})

NextDecide ==
    \/ Select(SelectContexts, SelectCategories, SelectAmounts)
    \/ Optimize(OptimizeContexts, OptimizeKeys, Amounts, OptimizeExplored)
    \/ LoadModels
    \/ ForceExploitation
    \/ Return

SpecDecide == InitDecide /\ [][NextDecide]_vars

-----------------------------------------------------------------------------
(* SpecRepeat: select_budget_action called again and again, the previous   *)
(* call kept for comparison                                                *)

RepeatContexts ==
    {UserContext(Rupees(50000), SavingsGoal, "aggressive", EmptyMap),
     UserContext(0, SavingsGoal, "moderate", [c \in CategorySet |-> 95])}
RepeatCategories == {"food", "savings", "rent"}
RepeatAmounts == {Rupees(2000)}

NextRepeat ==
    \/ Select(RepeatContexts, RepeatCategories, RepeatAmounts)
    \/ LoadModels
    \/ ForceExploitation
    \/ ReturnKeep

SpecRepeat == InitDecide /\ [][NextRepeat]_vars

-----------------------------------------------------------------------------
(* SpecReward: calculate_reward over actions, contexts and outcome records *)

\* one calculate_reward call
CalculateReward(actions, contexts, outcomes) ==
    /\ pc = "idle"
    /\ \E action \in actions, ctx \in contexts, actual_outcome \in outcomes :
          \E r \in {calculate_reward(action, ctx, actual_outcome)} :
              /\ call' = [NoCall EXCEPT
                     !.op = "reward", !.user_context = ctx,
                     !.category = action.category, !.action = action,
                     !.outcome = actual_outcome]
              /\ result' = [NoResult EXCEPT
                     !.raised = r.raised,
                     !.error = IF r.raised THEN "KeyError" ELSE "",
                     !.reward = r.reward]
    /\ pc' = "returned"
    /\ UNCHANGED <<optimizer, store, prev, forced, nUpdates, fresh, inflight>>

RewardCategories == {"savings", "groceries", "food", "education", "rent"}
RewardAmounts ==
    {Rat(Rupees(x), 1) : x \in {-1000, 0, 2000, 4000, 5000, 30000}}
RewardChanges == {Rat(-10, 100), Rat(0, 1), Rat(10, 100)}
RewardConfidences == {0, 300, 900}

RewardActions ==
    {BudgetAction(c, amount, Rupees(4000), change, WellBalanced, confidence) :
        c \in RewardCategories, amount \in RewardAmounts,
        change \in RewardChanges, confidence \in RewardConfidences}

RewardContexts ==
    {[UserContext(i, g, r, EmptyMap) EXCEPT !.spending_patterns = sp] :
        i \in {0, Rupees(50000)},
        g \in {0, Rupees(12000), Rupees(100000)},
        r \in RiskTolerances \cup {"reckless"},
        sp \in {EmptyMap, [c \in CategorySet |-> Rupees(4000)]}}

\* absent; supplied: every signal at 1.0, signals outside [0, 1], only one
\* signal, none of the three signals, no field at all
RewardOutcomes ==
    {NoOutcome}
    \cup {OutcomeRecord(fields) : fields \in
            {[k \in {"budget_adherence", "user_satisfaction", "goal_progress"}
                 |-> 100],
             ("budget_adherence" :> 300) @@ ("user_satisfaction" :> -200),
             ("goal_progress" :> 0),
             ("notes" :> 0),
             EmptyMap}}

NextReward ==
    \/ CalculateReward(RewardActions, RewardContexts, RewardOutcomes)
    \/ Return

SpecReward == InitDecide /\ [][NextReward]_vars

-----------------------------------------------------------------------------
(* SpecScore: the decision and scoring operations called on an instance   *)
(* whose rate, models and buffers change between the calls                 *)

\* get_budget_insights with a decay of the exploration rate
InsightsDecaying(contexts, keyCats, amounts) ==
    /\ pc = "idle"
    /\ \E ctx \in contexts, current_budgets \in BudgetMaps(keyCats, amounts) :
          /\ call' = [NoCall EXCEPT
                 !.op = "insights", !.user_context = ctx,
                 !.budgets = current_budgets]
          /\ result' = [NoResult EXCEPT
                 !.insights = get_budget_insights(ctx, current_budgets)]
    /\ exploration_rate' = DecayedRate(exploration_rate)
    /\ pc' = "returned"
    /\ UNCHANGED <<reward_models, training_data, store, prev, forced, nUpdates, fresh, inflight>>

\* one get_budget_insights call
Insights(contexts, keyCats, amounts) ==
    /\ pc = "idle"
    /\ \E ctx \in contexts, current_budgets \in BudgetMaps(keyCats, amounts) :
          /\ call' = [NoCall EXCEPT
                 !.op = "insights", !.user_context = ctx,
                 !.budgets = current_budgets]
          /\ result' = [NoResult EXCEPT
                 !.insights = get_budget_insights(ctx, current_budgets)]
    /\ pc' = "returned"
    /\ UNCHANGED <<optimizer, store, prev, forced, nUpdates, fresh, inflight>>

ScoreActions ==
    {BudgetAction("savings", Rat(amount, 1), Rupees(4000), Rat(10, 100), WellBalanced, 300) :
        amount \in {Rupees(2000), Rupees(5000)}}
ScoreOutcomes == {NoOutcome, OutcomeRecord(("goal_progress" :> 100))}
InsightContexts ==
    {UserContext(i, g, "moderate", EmptyMap) :
        i \in {0, Rupees(50000)}, g \in {0, Rupees(12000)}}
InsightKeys == {"savings", "entertainment", "groceries", "bills"}
InsightAmounts == {Rupees(2000), Rupees(30000)}

NextScore ==
    \/ Select(LifeContexts, {"savings"}, {Rupees(2000)})
    \/ Optimize(LifeContexts, {"food"}, {Rupees(30000)}, {"food"})
    \/ CalculateReward(ScoreActions, LifeContexts, ScoreOutcomes)
    \/ Insights(InsightContexts, InsightKeys, InsightAmounts)
    \/ UpdateFeedback({"food", "savings"})
    \/ LoadModels
    \/ Return

SpecScore == InitDecide /\ [][NextScore]_vars

-----------------------------------------------------------------------------
(* SpecFeedback: update_models_with_feedback called again and again       *)

\* update_models_with_feedback calls in one behaviour
MaxFeedbackCalls == 11

FeedbackChanges == DOMAIN FloatRounding

\* one action with an outcome, for each change_percentage; an action and an
\* outcome for each of two categories; categories in one of the maps only
\* and a category the model bank does not hold; nothing at all
FeedbackBatches ==
    {[actions_taken |-> ("food" :> change), outcomes |-> {"food"}] :
        change \in FeedbackChanges}
    \cup {[actions_taken |-> ("savings" :> 50), outcomes |-> {"savings"}],
          [actions_taken |-> ("food" :> 0) @@ ("savings" :> 0),
           outcomes |-> {"food", "savings"}],
          [actions_taken |-> ("food" :> 0) @@ ("rent" :> 0),
           outcomes |-> {"savings", "rent"}],
          [actions_taken |-> EmptyMap, outcomes |-> {}]}

FeedbackContexts ==
    {UserContext(Rupees(50000), SavingsGoal, r, EmptyMap) :
        r \in {"moderate", "reckless"}}

NextFeedback ==
    \/ Update(FeedbackContexts, FeedbackBatches, {"food"}, MaxFeedbackCalls)
    \/ Return

SpecFeedback == InitDecide /\ [][NextFeedback]_vars

-----------------------------------------------------------------------------
(* SpecPersist: save_models and load_models on a file system that can      *)
(* refuse a write and that can hold files left truncated                   *)

SaveFailures == {"none", "makedirs", "shopping", "metadata"}

\* what an earlier process left: nothing, a complete save, or a save with
\* one file that cannot be read back
DamagedStores ==
    {[PersistedStore EXCEPT !.unreadable = {file}] :
        file \in {"shopping", "feature_scaler", "metadata"}}

InitPersist == InitWith({EmptyStore, PersistedStore} \cup DamagedStores)

NextPersist ==
    \/ Save(SaveFailures)
    \/ LoadModels
    \/ UpdateFeedback({"food"})
    \/ ForceExploitation
    \/ Return

SpecPersist == InitPersist /\ [][NextPersist]_vars

-----------------------------------------------------------------------------
(* SpecReload: an instance is saved, a second instance is constructed and  *)
(* loads the files, and both are driven by the same calls                  *)

\* update_models_with_feedback calls on the first instance in one behaviour
MaxReloadUpdates == 11

\* a second instance is constructed with the same model_path and calls
\* load_models, right after the first instance has saved
FreshLoad ==
    /\ pc = "returned"
    /\ call.op = "save"
    /\ ~result.raised
    /\ ~fresh.exists
    /\ fresh' = [NoFresh EXCEPT
           !.exists = TRUE,
           !.reward_models = LoadedModels(InitialRewardModels, store),
           !.exploration_rate = LoadedRate(InitialExplorationRate, store)]
    /\ call' = [NoCall EXCEPT !.op = "fresh_load"]
    /\ result' = [NoResult EXCEPT !.value = LoadedValue(store)]
    /\ UNCHANGED <<optimizer, store, pc, prev, forced, nUpdates, inflight>>

\* the same update_models_with_feedback call on every instance there is;
\* a batch is given by the key sets of actions_taken and outcomes.  Two
\* instances that refit in the same call have buffered the same
\* observations, and their fits end in the same state.
UpdateEach(batches) ==
    /\ pc = "idle"
    /\ nUpdates < MaxReloadUpdates
    /\ \E batch \in batches :
          LET Q == Qualifying(reward_models, batch.actions_taken,
                              batch.outcomes)
          IN  \E fitted \in [Q -> 1..NumFits] :
                  /\ training_data' = BuffersAfter(training_data, Q)
                  /\ reward_models' =
                         ModelsAfter(reward_models, training_data, Q, fitted)
                  /\ fresh' =
                         IF fresh.exists
                         THEN [fresh EXCEPT
                                 !.training_data =
                                     BuffersAfter(fresh.training_data, Q),
                                 !.reward_models =
                                     ModelsAfter(fresh.reward_models,
                                         fresh.training_data, Q, fitted),
                                 !.exploration_rate =
                                     DecayedRate(fresh.exploration_rate),
                                 !.updates = fresh.updates + 1]
                         ELSE fresh
    /\ exploration_rate' = DecayedRate(exploration_rate)
    /\ call' = [NoCall EXCEPT !.op = "update_each"]
    /\ result' = NoResult
    /\ nUpdates' = nUpdates + 1
    /\ pc' = "returned"
    /\ UNCHANGED <<store, prev, forced, inflight>>

\* exploration is forced off on both instances and the same
\* select_budget_action call is made on each
SelectEach(contexts, cats, amounts) ==
    /\ pc = "idle"
    /\ fresh.exists
    /\ \E ctx \in contexts, category \in cats, current_budget \in amounts :
          \E r \in {select_budget_action(reward_models, ctx, category,
                                        current_budget, Exploit)},
             f \in {select_budget_action(fresh.reward_models, ctx, category,
                                        current_budget, Exploit)} :
              /\ call' = [NoCall EXCEPT
                     !.op = "select_each", !.user_context = ctx,
                     !.category = category,
                     !.budgets = (category :> current_budget),
                     !.draws = (category :> Exploit)]
              /\ result' = [NoResult EXCEPT
                     !.raised = r.raised, !.error = r.error,
                     !.recommendations = (category :> r.action),
                     !.first_pass = (category :> r.action),
                     !.action_index = (category :> r.action_index),
                     !.exploration_rate = 0,
                     !.reward_models = reward_models]
              /\ fresh' = [fresh EXCEPT
                     !.exploration_rate = 0,
                     !.raised = f.raised, !.action = f.action]
    /\ exploration_rate' = 0
    /\ forced' = TRUE
    /\ pc' = "returned"
    /\ UNCHANGED <<reward_models, training_data, store, prev, nUpdates,
                   inflight>>

ReloadBatches == {[actions_taken |-> {"food", "rent"}, outcomes |-> {"food"}]}
ReloadContexts ==
    {UserContext(Rupees(50000), SavingsGoal, "moderate", EmptyMap),
     UserContext(0, SavingsGoal, "aggressive", [c \in CategorySet |-> 95])}
ReloadCategories == {"food", "savings"}
ReloadAmounts == {Rupees(2000), Rupees(30000)}

InitReload == InitWith({EmptyStore})

NextReload ==
    \/ UpdateEach(ReloadBatches)
    \/ SaveModels
    \/ FreshLoad
    \/ SelectEach(ReloadContexts, ReloadCategories, ReloadAmounts)
    \/ Return

SpecReload == InitReload /\ [][NextReload]_vars

-----------------------------------------------------------------------------
(* SpecConcurrent: two callers share one instance.  One calls save_models  *)
(* and load_models; the other is inside update_models_with_feedback with a *)
(* batch of one category, and the class takes no lock: the calls of the    *)
(* first run between any two statements of the second.                     *)

\* update_models_with_feedback calls of the second caller in one behaviour
MaxInflightUpdates == 10

\* the call starts and appends the observation to the buffer
UpdateAppend(cats) ==
    /\ inflight.step = "none"
    /\ nUpdates < MaxInflightUpdates
    /\ \E category \in cats :
          /\ category \in DOMAIN reward_models
          /\ training_data' =
                [c \in DOMAIN training_data \cup {category} |->
                    IF c = category THEN Get(training_data, c, 0) + 1
                    ELSE training_data[c]]
          /\ inflight' = [step |-> "appended", category |-> category]
    /\ UNCHANGED <<exploration_rate, reward_models, store, pc, call, result,
                   prev, forced, nUpdates, fresh>>

\* len(self.training_data[category]['X']) >= 10: model.fit(X, y)
UpdateFit ==
    /\ inflight.step = "appended"
    /\ training_data[inflight.category] >= RetrainSize
    /\ \E fitted \in 1..NumFits :
          reward_models' =
              [reward_models EXCEPT ![inflight.category] = fitted]
    /\ inflight' = [inflight EXCEPT !.step = "fitted"]
    /\ UNCHANGED <<exploration_rate, training_data, store, pc, call, result,
                   prev, forced, nUpdates, fresh>>

\* self.training_data[category] = {'X': [], 'y': []}
UpdateClear ==
    /\ inflight.step = "fitted"
    /\ training_data' = [training_data EXCEPT ![inflight.category] = 0]
    /\ inflight' = [inflight EXCEPT !.step = "cleared"]
    /\ UNCHANGED <<exploration_rate, reward_models, store, pc, call, result,
                   prev, forced, nUpdates, fresh>>

\* the loop is over: the exploration rate decays and the call returns
UpdateDecay ==
    /\ \/ inflight.step = "cleared"
       \/ /\ inflight.step = "appended"
          /\ training_data[inflight.category] < RetrainSize
    /\ exploration_rate' = DecayedRate(exploration_rate)
    /\ nUpdates' = nUpdates + 1
    /\ inflight' = NoUpdate
    /\ UNCHANGED <<reward_models, training_data, store, pc, call, result,
                   prev, forced, fresh>>

NextConcurrent ==
    \/ UpdateAppend({"food"})
    \/ UpdateFit
    \/ UpdateClear
    \/ UpdateDecay
    \/ SaveModels
    \/ LoadModels
    \/ Return

SpecConcurrent == InitDecide /\ [][NextConcurrent]_vars

-----------------------------------------------------------------------------
(* Properties *)

\* op has returned a value to the caller
Returned(op) == pc = "returned" /\ call.op = op /\ ~result.raised

\* the BudgetActions the caller holds
ReturnedActions ==
    IF Returned("select") \/ Returned("optimize")
    THEN {result.recommendations[c] : c \in DOMAIN result.recommendations}
    ELSE {}

\* discretionary subtotal after the first pass
FirstPassDiscretionary ==
    ISum([c \in discretionary_categories |->
             result.first_pass[c].recommended_amount.n],
         discretionary_categories)

IncomeLimit == (call.user_context.income * 95) \div 100

\* C1: every BudgetAction returned by select_budget_action and by
\* optimize_complete_budget has recommended_amount >= 0, whatever the sign of
\* the income and whatever the current budgets are.
C1_AmountsNonNegative ==
    \A a \in ReturnedActions : a.recommended_amount.n >= 0

\* C2: every BudgetAction returned by select_budget_action and by
\* optimize_complete_budget has its confidence in [0, 1]: after exploration,
\* after exploitation with a trained model, after the fallback and after the
\* rescaling pass.
C2_ConfidenceInUnitInterval ==
    \A a \in ReturnedActions : 0 <= a.confidence /\ a.confidence <= ConfScale

\* a rescaled action of a trained model that was exploited at the upper clamp
C2_Witness ==
    /\ Returned("optimize")
    /\ result.rescaled
    /\ \E c \in discretionary_categories :
          /\ call.draws[c] = Exploit
          /\ result.reward_models[c] >= 1
          /\ result.first_pass[c].confidence = 900
          /\ result.recommendations[c].confidence = 810

\* C3: whenever optimize_complete_budget returns and the discretionary
\* subtotal is > 0, the recommended amounts of all categories sum to at most
\* income * 0.95 (stated for the positive incomes, where the limit is a
\* budget).
C3_TotalWithinIncomeLimit ==
    (/\ Returned("optimize")
     /\ FirstPassDiscretionary > 0
     /\ call.user_context.income > 0) =>
        RLe(RSum([c \in CategorySet |->
                     result.recommendations[c].recommended_amount],
                 CategorySet),
            Rat(IncomeLimit, 1))

\* C4: for a category with a configured minimum fraction and income > 0, the
\* amount select_budget_action recommends is at least income * min_fraction,
\* under every risk tolerance.
C4_MinimumAllocationKept ==
    (/\ Returned("select")
     /\ call.category \in DOMAIN minimum_allocation
     /\ call.user_context.income > 0) =>
        result.recommendations[call.category].recommended_amount.n * 100
            >= call.user_context.income * minimum_allocation[call.category]

\* the operations of the class
Operations == {"select", "optimize", "update", "save", "load"}

\* C5 as claimed: no operation of the class ever raises exploration_rate,
\* whatever the rate was when the operation started.
C5_RateNeverIncreases ==
    [][call'.op \in Operations => exploration_rate' <= exploration_rate]_vars

\* C5 as amended: select_budget_action, optimize_complete_budget and
\* save_models never raise exploration_rate, and update_models_with_feedback
\* does not raise it when it starts from a rate >= 0.05.
C5_RateNeverIncreasesAmended ==
    [][(\/ call'.op \in {"select", "optimize", "save"}
        \/ call'.op = "update" /\ exploration_rate >= ExplorationFloor)
       => exploration_rate' <= exploration_rate]_vars

\* an update has decayed a rate above the floor
C5_Witness ==
    /\ pc = "returned"
    /\ call.op = "update"
    /\ ~forced
    /\ exploration_rate > ExplorationFloor
    /\ exploration_rate < InitialExplorationRate

\* C6: exploration_rate >= 0.05 in every state the instance reaches through
\* its own operations (the attribute never having been overwritten).
C6_RateAtLeastFloor == ~forced => exploration_rate >= ExplorationFloor

\* the decay of a loaded rate was stopped by the floor
C6_Witness ==
    /\ pc = "returned"
    /\ call.op = "update"
    /\ ~forced
    /\ exploration_rate = ExplorationFloor

\* C7: whenever the rescaling pass fires, every discretionary category keeps
\* at least 70% of its first-pass amount (in magnitude), and so does the
\* discretionary subtotal.
C7_RescalingKeepsSeventyPercent ==
    (Returned("optimize") /\ result.rescaled) =>
        /\ \A c \in discretionary_categories :
              RLe(Rat(7 * Abs(result.first_pass[c].recommended_amount.n), 10),
                  RAbs(result.recommendations[c].recommended_amount))
        /\ RLe(Rat(7 * FirstPassDiscretionary, 10),
               RSum([c \in discretionary_categories |->
                        result.recommendations[c].recommended_amount],
                    discretionary_categories))

\* the excess was more than the floor lets the pass remove
C7_Witness ==
    /\ Returned("optimize")
    /\ result.rescaled
    /\ call.user_context.income > 0
    /\ result.reduction_factor = Rat(7, 10)
    /\ result.first_pass["food"].recommended_amount.n > 0
    /\ 10 * result.recommendations["food"].recommended_amount.n
           = 7 * result.first_pass["food"].recommended_amount.n
              * result.recommendations["food"].recommended_amount.d

\* C8: the rescaling pass leaves every category outside the discretionary
\* group with exactly the BudgetAction select_budget_action produced for it.
C8_OnlyDiscretionaryRescaled ==
    Returned("optimize") =>
        \A c \in CategorySet \ discretionary_categories :
            result.recommendations[c] =
                select_budget_action(result.reward_models, call.user_context,
                    c, Get(call.budgets, c, 0), call.draws[c]).action

\* the pass fired, changed food and left a positive education budget alone
C8_Witness ==
    /\ Returned("optimize")
    /\ result.rescaled
    /\ result.recommendations["food"] # result.first_pass["food"]
    /\ result.recommendations["education"].recommended_amount.n > 0
    /\ result.recommendations["savings"].recommended_amount.n > 0

\* the call that returned is a repetition of the previous call: exploration
\* forced off in both, the same model state, the same arguments
Repeated ==
    /\ pc = "returned"
    /\ call.op = "select"
    /\ prev.call.op = "select"
    /\ result.exploration_rate = 0
    /\ prev.result.exploration_rate = 0
    /\ result.reward_models = prev.result.reward_models
    /\ call.user_context = prev.call.user_context
    /\ call.category = prev.call.category
    /\ call.budgets = prev.call.budgets

\* C9: with exploration_rate forced to 0 and the model state fixed, two
\* select_budget_action calls with the same context, category and current
\* budget return the same BudgetAction.
C9_ExploitationDeterministic ==
    Repeated =>
        /\ result.raised = prev.result.raised
        /\ result.recommendations = prev.result.recommendations

\* a repeated call that exploited a trained model
C9_Witness ==
    /\ Repeated
    /\ ~result.raised
    /\ call.category \in DOMAIN result.reward_models
    /\ call.category \in DOMAIN result.action_index
    /\ result.reward_models[call.category] >= 1
    /\ result.action_index[call.category] # 3

\* the select_budget_action call that returned or raised took the
\* exploitation branch for a category whose model is unfitted or broken
ExploitedWithoutModel ==
    /\ pc = "returned"
    /\ call.op = "select"
    /\ call.draws[call.category] = Exploit
    /\ call.category \in DOMAIN result.reward_models
    /\ result.reward_models[call.category] \in {Untrained, Broken}

\* C10: when select_budget_action exploits a category whose model was never
\* trained or whose prediction fails, it chooses action index 3 with
\* confidence 0.3, and no prediction error reaches the caller.
C10_FallbackToNoChange ==
    ExploitedWithoutModel =>
        /\ result.error # "predict"
        /\ result.action_index[call.category] = 3
        /\ ~result.raised =>
              result.recommendations[call.category].confidence = 300

\* the fallback for a model whose predict raises
C10_Witness ==
    /\ ExploitedWithoutModel
    /\ ~result.raised
    /\ result.reward_models[call.category] = Broken
    /\ result.recommendations[call.category].confidence = 300
    /\ result.recommendations[call.category].current_amount > 0


\* C11: select_budget_action and optimize_complete_budget (like every
\* operation of the class) complete without raising for every input: zero or
\* negative income, categories missing from the maps, empty history, and a
\* risk_tolerance outside the multiplier table.
C11_NoOperationRaises == pc = "returned" => ~result.raised

\* C12: with income <= 0, optimize_complete_budget applies no rescaling:
\* every returned action is the one select_budget_action produced for its
\* category.
C12_NoRescalingWithoutIncome ==
    (Returned("optimize") /\ call.user_context.income <= 0) =>
        /\ ~result.rescaled
        /\ result.recommendations = result.first_pass

\* the amount select_budget_action proposes to the constraint clamp
ProposedAmount ==
    (call.budgets[call.category]
        * (100 + action_space[result.action_index[call.category]])) \div 100

\* C20: for entertainment with income 50000 (maximum 15% = 7500) and any risk
\* tolerance, the constraint clamp returns a proposed amount within the bound
\* unaltered, and never returns more than 7500.
C20_EntertainmentClamp ==
    (/\ Returned("select")
     /\ call.category = "entertainment"
     /\ call.user_context.income = Rupees(50000)) =>
        LET amount == result.recommendations["entertainment"].recommended_amount.n
        IN  /\ amount <= Rupees(7500)
            /\ (0 <= ProposedAmount /\ ProposedAmount <= Rupees(7500))
                   => amount = ProposedAmount


\* C13: calculate_reward returns a value in [0, 1] for every action, every
\* context with a known risk tolerance and every outcome record, supplied or
\* absent, whatever the weighted sub-rewards sum to.
C13_RewardInUnitInterval ==
    Returned("reward") =>
        RLe(Rat(0, 1), result.reward) /\ RLe(result.reward, Rat(1000, 1))

\* the sub-rewards of the returned call, before the clamp
RewardSum ==
    LET a == call.action
        ctx == call.user_context
    IN  RAdd(RAdd(RAdd(FeasibilityReward(a.category, a.recommended_amount,
                                         ctx.income),
                       RiskReward(a.category, a.change_percentage,
                           risk_tolerance_multipliers[ctx.risk_tolerance])),
                  RAdd(OutcomeReward(call.outcome),
                       ConfidenceReward(a.confidence))),
             RNorm(RAdd(AlignmentReward(a.category, a.recommended_amount,
                                        ctx.spending_patterns),
                        GoalReward(a.category, a.recommended_amount,
                                   ctx.savings_goal))))

\* a sum above 1.0 was returned as 1.0
C13_Witness ==
    /\ Returned("reward")
    /\ RLt(Rat(1000, 1), RewardSum)
    /\ result.reward = Rat(1000, 1)

\* the returned call was for an amount below the configured minimum of its
\* category, with a positive income
RewardedBelowMinimum ==
    /\ Returned("reward")
    /\ call.user_context.income > 0
    /\ BelowMinimum(call.category, call.action.recommended_amount,
                    call.user_context.income)

\* the rewards of the same action with its amount at or above the minimum
RewardsAtMinimum ==
    {calculate_reward([call.action EXCEPT !.recommended_amount = amount],
                      call.user_context, call.outcome).reward :
        amount \in {x \in RewardAmounts :
                       ~BelowMinimum(call.category, x,
                                     call.user_context.income)}}

\* C14 as claimed: the reward of an action whose amount is below
\* income * min_fraction is strictly less than the reward of the same action
\* with the amount at or above the minimum.
C14_BelowMinimumStrictlyLess ==
    RewardedBelowMinimum =>
        \A r \in RewardsAtMinimum : RLt(result.reward, r)

\* C14 as amended: it is never greater, and it is strictly less unless the
\* clamp returned the same bound (0 or 1) for both.
C14_BelowMinimumStrictlyLessAmended ==
    RewardedBelowMinimum =>
        \A r \in RewardsAtMinimum :
            /\ RLe(result.reward, r)
            /\ \/ RLt(result.reward, r)
               \/ result.reward = Rat(0, 1) /\ r = Rat(0, 1)
               \/ result.reward = Rat(1000, 1) /\ r = Rat(1000, 1)

\* the amount below the minimum is closer to the history than one at the
\* minimum, and is still rewarded less
C14_Witness ==
    /\ RewardedBelowMinimum
    /\ call.category = "savings"
    /\ call.action.recommended_amount = Rat(Rupees(4000), 1)
    /\ Get(call.user_context.spending_patterns, "savings", 0) = Rupees(4000)
    /\ RLt(Rat(0, 1), result.reward)
    /\ \E r \in RewardsAtMinimum :
          RLt(result.reward, r) /\ RLt(r, Rat(1000, 1))


\* C17: a load_models call that returns failure leaves the in-memory state of
\* the optimizer exactly as it was: no model and no exploration_rate has been
\* replaced.
C17_FailedLoadChangesNothing ==
    [][(call'.op = "load" /\ result'.value = "False")
       => UNCHANGED optimizer]_vars

\* C18: save_models and load_models report their outcome as a value: no
\* exception escapes either of them, and each returns a success or a failure
\* indication.
C18_PersistenceReportsByValue ==
    (pc = "returned" /\ call.op \in {"save", "load"}) =>
        /\ ~result.raised
        /\ result.value \in {"True", "False"}


\* the same select_budget_action call has returned from both instances
SelectedOnEach == pc = "returned" /\ call.op = "select_each"

\* both instances gave the same outcome
SameSelection ==
    /\ fresh.raised = result.raised
    /\ fresh.action = result.recommendations[call.category]

\* C15: after save_models on an instance and load_models into a freshly
\* constructed instance with the same storage location, select_budget_action
\* with exploration forced off returns the same action on both, for every
\* context, category and current budget.
C15_RoundTripSameSelection ==
    (SelectedOnEach /\ fresh.updates = 0) => SameSelection

\* the saved instance had a fitted model whose prediction chose a change,
\* and feedback waiting in its buffer
C15_Witness ==
    /\ SelectedOnEach
    /\ fresh.updates = 0
    /\ ~result.raised
    /\ reward_models[call.category] >= 1
    /\ Get(training_data, call.category, 0) > 0
    /\ result.action_index[call.category] # 3

\* C16: a fresh instance that loads a saved state and the original instance,
\* driven by the same later update_models_with_feedback and exploration-off
\* select_budget_action calls, keep the same models and exploration rate and
\* give the same outputs, also when the save was made with observations
\* waiting in a batch buffer.
C16_ReloadedBehavesAlike ==
    fresh.exists =>
        /\ fresh.reward_models = reward_models
        /\ fresh.exploration_rate = exploration_rate
        /\ SelectedOnEach => SameSelection


\* C19: save_models and load_models never run while an
\* update_models_with_feedback call is in flight on the same instance, so a
\* save persists only a state that exists between complete updates.
C19_NoPersistenceDuringUpdate ==
    [][(pc = "idle" /\ call'.op \in {"save", "load"})
       => inflight.step = "none"]_vars


\* (recommended_amount - current_amount) / current_amount, in lowest terms
RelativeChange(a) ==
    RNorm(Rat(a.recommended_amount.n
                  - a.current_amount * a.recommended_amount.d,
              a.current_amount * a.recommended_amount.d))

\* C21: every BudgetAction returned by select_budget_action and by
\* optimize_complete_budget (the rescaled ones included) carries
\* change_percentage = (recommended_amount - current_amount) / current_amount
\* when current_amount > 0, and 0 when current_amount is 0.
C21_ChangeRelativeToCurrent ==
    \A a \in ReturnedActions :
        /\ a.current_amount > 0 =>
               RNorm(a.change_percentage) = RelativeChange(a)
        /\ a.current_amount = 0 => a.change_percentage.n = 0

\* the rescaling pass rewrote the change of a positive budget, and a floor
\* raised a category without a budget above 0
C21_Witness ==
    /\ Returned("optimize")
    /\ result.rescaled
    /\ \E c \in discretionary_categories :
          /\ result.recommendations[c].current_amount > 0
          /\ result.recommendations[c].change_percentage
                 # result.first_pass[c].change_percentage
    /\ \E c \in CategorySet :
          /\ result.recommendations[c].current_amount = 0
          /\ result.recommendations[c].recommended_amount.n > 0

\* the clamp as the reference describes it: multipliers in tenths
ReferenceMultiplier(category, risk_tolerance) ==
    IF category \in {"investment", "savings"}
    THEN CASE risk_tolerance = "conservative" -> 8
           [] risk_tolerance = "moderate" -> 10
           [] risk_tolerance = "aggressive" -> 13
    ELSE IF category \in {"entertainment", "shopping", "food"}
    THEN CASE risk_tolerance = "conservative" -> 9
           [] risk_tolerance = "moderate" -> 10
           [] risk_tolerance = "aggressive" -> 11
    ELSE 10

\* floor at the minimum, then cap at the maximum
ReferenceMinMax(category, amount, income) ==
    LET floored ==
            IF category \in DOMAIN minimum_allocation
            THEN Max(amount, (income * minimum_allocation[category]) \div 100)
            ELSE amount
    IN  IF category \in DOMAIN maximum_allocation
        THEN Min(floored, (income * maximum_allocation[category]) \div 100)
        ELSE floored

ReferenceClamp(category, amount, income, risk_tolerance) ==
    IF income <= 0 THEN amount
    ELSE Max(0, (ReferenceMinMax(category, amount, income)
                    * ReferenceMultiplier(category, risk_tolerance)) \div 10)

\* C23: the constraint clamp equals the reference function (income <= 0:
\* unchanged; else floor at the minimum, cap at the maximum, multiply by the
\* tolerance's multiplier of the category's group, floor at 0); so for the
\* essential categories and education the result does not depend on the
\* tolerance, and under moderate tolerance it is the plain min/max clamp.
C23_ClampIsReference ==
    Returned("select") =>
        LET category == call.category
            income == call.user_context.income
            risk_tolerance == call.user_context.risk_tolerance
            amount == result.recommendations[category].recommended_amount.n
        IN  /\ amount = ReferenceClamp(category, ProposedAmount, income,
                                       risk_tolerance)
            /\ (income > 0 /\ category \in essential_categories \cup {"education"})
                   => \A r \in RiskTolerances :
                          _apply_budget_constraints(category, ProposedAmount,
                              income, r).amount = amount
            /\ (income > 0 /\ risk_tolerance = "moderate")
                   => amount = Max(0, ReferenceMinMax(category, ProposedAmount,
                                                      income))

\* a savings amount raised to its floor and then amplified
C23_Witness ==
    /\ Returned("select")
    /\ call.category = "savings"
    /\ call.user_context.risk_tolerance = "aggressive"
    /\ call.user_context.income = Rupees(50000)
    /\ ProposedAmount < Rupees(5000)
    /\ result.recommendations["savings"].recommended_amount.n = Rupees(6500)

\* C29: the reasoning of every action select_budget_action returns agrees
\* with the change the action carries: the well-balanced sentence exactly when
\* |change_percentage| < 1%, else "increase" for a positive and "decrease"
\* for a negative change_percentage.
C29_ReasoningAgreesWithChange ==
    Returned("select") =>
        LET a == result.recommendations[call.category]
            change == a.change_percentage
        IN  /\ a.reasoning.balanced <=> 100 * Abs(change.n) < change.d
            /\ ~a.reasoning.balanced =>
                   a.reasoning.direction =
                       IF change.n > 0 THEN "increase" ELSE "decrease"


\* the observed-outcome bonus as stated: present for a supplied record, each
\* absent field taken as 0.5, absent without a record (thousandths)
StatedOutcomeBonus(actual_outcome) ==
    IF actual_outcome.supplied
    THEN Rat(3 * Get(actual_outcome.fields, "budget_adherence", 50)
             + 2 * Get(actual_outcome.fields, "user_satisfaction", 50)
             + 2 * Get(actual_outcome.fields, "goal_progress", 50), 1)
    ELSE Rat(0, 1)

\* C28: whenever an outcome record is supplied to calculate_reward, also one
\* with none of the three fields, the pre-clamp reward includes the bonus
\* 0.3 * budget_adherence + 0.2 * user_satisfaction + 0.2 * goal_progress
\* with each absent field taken as 0.5; without a record the bonus is absent.
C28_BonusWheneverRecordSupplied ==
    Returned("reward") =>
        OutcomeReward(call.outcome) = StatedOutcomeBonus(call.outcome)


\* the next step is a call of a decision or scoring operation
ScoringCall ==
    /\ pc = "idle"
    /\ pc' = "returned"
    /\ call'.op \in {"select", "optimize", "reward", "insights"}

\* C22: select_budget_action, optimize_complete_budget, calculate_reward and
\* get_budget_insights leave the optimizer state unchanged: the
\* exploration rate, every category's model and every training buffer (the
\* category list, the action space and the constraint tables are assigned
\* by the constructor only).
C22_ScoringIsReadOnly ==
    [][ScoringCall =>
           /\ exploration_rate' = exploration_rate
           /\ reward_models' = reward_models
           /\ training_data' = training_data]_vars

\* insights were returned by an instance that had learned from feedback and
\* loaded models
C22_Witness ==
    /\ Returned("insights")
    /\ result.insights.risk_assessment.level = "high"
    /\ result.insights.optimization_opportunities = {"savings", "entertainment"}
    /\ exploration_rate < InitialExplorationRate
    /\ training_data # EmptyMap
    /\ reward_models # InitialRewardModels


\* C24: between update_models_with_feedback calls the buffer of every
\* batch-only (ensemble) category holds 0..9 observations: the model is
\* refitted when the buffer reaches 10 and the buffer is empty right after.
C24_BufferBelowRetrainSize ==
    pc = "idle" =>
        \A c \in DOMAIN training_data :
            ModelKind(c) = "RandomForest" =>
                training_data[c] \in 0..(RetrainSize - 1)

\* the categories of the returned call that are in both maps and in the
\* model bank
InBothMaps ==
    {c \in DOMAIN call.actions_taken \cap call.outcomes :
        c \in DOMAIN reward_models}

\* C25: one feedback observation for investment or savings changes that
\* category's model within the same update_models_with_feedback call and is
\* not buffered, so the model is ready for exploitation after the first
\* observation.
C25_LinearUpdatedImmediately ==
    Returned("update") =>
        \A c \in {"investment", "savings"} \cap InBothMaps :
            /\ reward_models[c] \in 1..NumFits
            /\ Get(training_data, c, 0) = 0

\* the next step is an update_models_with_feedback call
UpdateCall == pc = "idle" /\ pc' = "returned" /\ call'.op = "update"

\* the categories of that call that are in both maps and in the model bank
InBothMapsNext ==
    {c \in DOMAIN call'.actions_taken \cap call'.outcomes :
        c \in DOMAIN reward_models}

\* the observation of category c was appended, or was the 10th of a refit
ObservationRecorded(c) ==
    \/ /\ c \in DOMAIN training_data'
       /\ training_data'[c] = Get(training_data, c, 0) + 1
    \/ /\ Get(training_data, c, 0) + 1 >= RetrainSize
       /\ training_data'[c] = 0
       /\ reward_models'[c] \in 1..NumFits

\* C26: update_models_with_feedback records an observation for exactly the
\* categories present in both actions_taken and outcomes and known to the
\* model bank; every other category, one present in only one of the two
\* maps included, has the same model and the same training buffer after
\* the call as before.  (A call that raises records nothing.)
C26_ObservationForBothOnly ==
    [][UpdateCall =>
           /\ \A c \in (CategorySet \cup DOMAIN call'.actions_taken
                           \cup call'.outcomes) \ InBothMapsNext :
                  /\ (c \in DOMAIN reward_models') = (c \in DOMAIN reward_models)
                  /\ c \in DOMAIN reward_models =>
                         reward_models'[c] = reward_models[c]
                  /\ (c \in DOMAIN training_data') = (c \in DOMAIN training_data)
                  /\ c \in DOMAIN training_data =>
                         training_data'[c] = training_data[c]
           /\ ~result'.raised =>
                  \A c \in InBothMapsNext : ObservationRecorded(c)]_vars

\* a call with food among the actions only, savings among the outcomes only
\* and rent, unknown to the model bank, in both, on an instance that holds
\* observations
C26_Witness ==
    /\ Returned("update")
    /\ DOMAIN call.actions_taken = {"food", "rent"}
    /\ call.outcomes = {"savings", "rent"}
    /\ "food" \in DOMAIN training_data
    /\ "savings" \in DOMAIN training_data
    /\ training_data["food"] = 3
    /\ training_data["savings"] = 2

\* C27: each update_models_with_feedback call decays the exploration rate
\* exactly once: after n calls from a fresh instance the rate is
\* max(0.05, 0.1 * 0.995^n).
C27_RateAfterEveryCall == exploration_rate = RateAfter(nUpdates)

\* the lower index among the buckets at the least distance in the reals,
\* with -15% credited to -20% and +7.5% to +5%
StatedBucket(change_percentage) ==
    CHOOSE i \in ActionIndices :
        /\ \A j \in ActionIndices :
               Abs(action_space[i] * 10 - change_percentage)
                   <= Abs(action_space[j] * 10 - change_percentage)
        /\ \A j \in ActionIndices :
               j < i => Abs(action_space[i] * 10 - change_percentage)
                            < Abs(action_space[j] * 10 - change_percentage)

\* C30 as claimed: the bucket credited for a taken action is an index at
\* the minimum absolute distance from change_percentage, and of two
\* equidistant buckets the lower index is credited (-15% to -20%, +7.5%
\* to +5%).
C30_TiesToLowerIndex ==
    Returned("update") =>
        \A c \in DOMAIN result.credited :
            /\ result.credited[c] = StatedBucket(call.actions_taken[c])
            /\ call.actions_taken[c] = -150 => result.credited[c] = 0
            /\ call.actions_taken[c] = 75 => result.credited[c] = 4

\* C30 amended: the bucket credited is an index at the minimum absolute
\* distance from change_percentage (the end bucket beyond +/-20%); the first
\* index with the least computed distance is taken, so a change midway
\* between two deltas goes to the lower index only where the two computed
\* distances are equal (-2.5% to -5%, +2.5% to 0%); -15% is credited to
\* -10%, -7.5% to -5%, +7.5% to +5% and +15% to +10%.
C30_NearestBucketAmended ==
    Returned("update") =>
        \A c \in DOMAIN result.credited :
            LET change_percentage == call.actions_taken[c]
                i == result.credited[c]
            IN  /\ \A j \in ActionIndices :
                       Abs(action_space[i] * 10 - change_percentage)
                           <= Abs(action_space[j] * 10 - change_percentage)
                /\ change_percentage <= -200 => i = 0
                /\ change_percentage >= 200 => i = 6
                /\ change_percentage = -25 => i = 2
                /\ change_percentage = 25 => i = 3
                /\ change_percentage = -150 => i = 1
                /\ change_percentage = -75 => i = 2
                /\ change_percentage = 75 => i = 4
                /\ change_percentage = 150 => i = 5

\* an action of -15% was credited to the -10% bucket
C30_Witness ==
    /\ Returned("update")
    /\ DOMAIN result.credited = {"food"}
    /\ call.actions_taken["food"] = -150
    /\ action_space[result.credited["food"]] = -10

=============================================================================
